---- MODULE Spec2Model ----
(***************************************************************************)
(* Credit ledger and project lifecycle of the Karatrack Studio backend.    *)
(*                                                                         *)
(* The model follows backend/src/index.js (the HTTP route handlers) and    *)
(* the SQL functions deduct_credits / add_credits of the database schema.  *)
(* Every handler is split at its awaits on shared state, so that handlers  *)
(* of independent requests interleave exactly where the server lets them.  *)
(*                                                                         *)
(* The projects table is modelled with the columns and status values that  *)
(* index.js reads and writes (the schema file predates the two-stage flow).*)
(***************************************************************************)
EXTENDS Integers, Sequences, FiniteSets, TLC

\* ------------------------------------------------------------------------
\* Bounds
\* ------------------------------------------------------------------------
\* number of HTTP requests (user actions and webhook deliveries) in a run
MaxRequests == 3
\* number of handlers that may be in flight at the same time
MaxInFlight == 2
\* number of projects the user creates
MaxProjects == 2

\* ------------------------------------------------------------------------
\* Program constants
\* ------------------------------------------------------------------------
\* profiles.credits_remaining INTEGER DEFAULT 3
DefaultCredits == 3
\* lyrics_text.trim().length < 50
MinLyricsLength == 50

Null == "null"
User == "u1"
Customer == "cus_1"
Slots == 1..MaxInFlight
ProjectIds == 1..MaxProjects

VARIABLES
    profile,      \* the user's row of public.profiles
    transactions, \* the user's rows of public.credit_transactions, in creation order
    rowLock,      \* request holding the FOR UPDATE lock on the profile row, 0 if none
    projects,     \* public.projects, by project id
    dispatches,   \* calls of sendToRunPod, in order
    emails,       \* messages handed to the email API and accepted by it, in order
    req,          \* the handlers in flight: position and local variables of each
    nextReq,      \* number of the next request to arrive
    stripe        \* the payment processor's side: subscriptions, sessions, events

vars == <<profile, transactions, rowLock, projects, dispatches, emails, req, nextReq,
          stripe>>

\* ------------------------------------------------------------------------
\* Reference data
\* ------------------------------------------------------------------------
\* INSERT INTO public.subscription_plans: tier -> credits_per_month
Tiers == {"free", "starter", "pro", "studio"}

PlanCredits(tier) ==
    CASE tier = "free" -> 3
      [] tier = "starter" -> 25
      [] tier = "pro" -> 75
      [] tier = "studio" -> 200

\* subscription_plans.stripe_price_id -> tier; Null when no plan has the price
PlanByPrice(price) ==
    CASE price = "price_starter" -> "starter"
      [] price = "price_pro" -> "pro"
      [] price = "price_studio" -> "studio"
      [] OTHER -> Null

\* credit_transactions.transaction_type CHECK (...)
TransactionTypes == {"subscription_renewal", "purchase", "usage", "refund", "bonus"}

\* ------------------------------------------------------------------------
\* Pure functions
\* ------------------------------------------------------------------------
calculateCreditsNeeded_Flat(processing_type, video_quality) == DefaultCredits

calculateCreditsNeeded(processing_type, video_quality) ==
    (IF processing_type = "both" THEN 2 ELSE 1)
    + 1
    + (CASE video_quality = "480p" -> 1
         [] video_quality = "720p" -> 3
         [] video_quality = "1080p" -> 5
         [] video_quality = "4k" -> 7
         [] OTHER -> 1)

\* IF v_current_credits < p_amount THEN RETURN FALSE
InsufficientCredits_NoCheck(v_current_credits, p_amount) == FALSE

InsufficientCredits(v_current_credits, p_amount) == v_current_credits < p_amount

\* checkCredits: profile.credits_remaining >= required
checkCredits_Always(credits_remaining, required) == TRUE

checkCredits(credits_remaining, required) == credits_remaining >= required

\* !file, or !lyrics_text || lyrics_text.trim().length < 50
InvalidUpload_Never(file, lyrics_len) == FALSE

InvalidUpload(file, lyrics_len) == ~file \/ lyrics_len < MinLyricsLength

\* JavaScript a || b on values that are either absent or a non-empty string
Or(a, b) == IF a # Null THEN a ELSE b

\* a key whose value is undefined is left out of the update: the column keeps its value
Assigned(new, current) == IF new # Null THEN new ELSE current

\* ------------------------------------------------------------------------
\* Records
\* ------------------------------------------------------------------------
NoProject ==
    [status |-> "absent", processed_audio_url |-> Null, vocals_audio_url |-> Null,
     lyrics_json |-> Null, edited_lyrics_json |-> Null, video_url |-> Null,
     runpod_job_id |-> 0, processing_started_at |-> FALSE,
     processing_completed_at |-> FALSE, error_message |-> Null,
     notify_on_complete |-> FALSE, credits_used |-> 0]

\* results of a worker callback; present = FALSE when the payload has no results
NoResults ==
    [present |-> FALSE, processed_audio_url |-> Null, vocals_audio_url |-> Null,
     lyrics |-> Null, video_url |-> Null]

NoEvent ==
    [sig |-> FALSE, type |-> Null, purchase |-> FALSE, credits |-> 0,
     subscription |-> FALSE, is_upgrade |-> FALSE, price |-> Null,
     customer |-> Null, sub |-> Null, payment_intent |-> Null, cycle |-> FALSE]

\* the payment processor: the number of customers created for the user, the
\* user's active subscriptions, the checkout sessions opened and not yet
\* paid, the events not yet delivered, and the number of subscriptions
\* created so far
NoStripe ==
    [customers |-> 0, subscriptions |-> {}, sessions |-> <<>>, events |-> {},
     created |-> 0]

IdleReq ==
    [kind |-> "none", pc |-> "idle", resp |-> 0, pid |-> 0, cost |-> 0,
     mode |-> Null, notify |-> FALSE, v |-> 0, debit |-> Null, job |-> 0,
     proj |-> NoProject, edited |-> Null, status |-> Null, err |-> Null,
     results |-> NoResults, ev |-> NoEvent, tier |-> Null,
     file |-> FALSE, lyrics_len |-> 0,
     processing_type |-> Null, video_quality |-> Null,
     price_id |-> Null, customerId |-> Null, subscriptionId |-> Null,
     isUpgrade |-> FALSE]

Free(r) == req[r].pc \in {"idle", "done"}

\* a request arrives and is served by the first handler slot that is free; the
\* slot keeps the response of its last request until then
Arrives(r) ==
    /\ nextReq <= MaxRequests
    /\ Free(r)
    /\ \A q \in Slots : q < r => ~Free(q)

\* a handler that has just started
Started(kind) == [IdleReq EXCEPT !.kind = kind]

\* a handler that has ended with res.status(code).json(...)
Answered(kind, code, pid) ==
    [IdleReq EXCEPT !.kind = kind, !.pc = "done", !.resp = code, !.pid = pid]

Respond(r, code) == Answered(req[r].kind, code, req[r].pid)

\* ------------------------------------------------------------------------
\* Credit ledger (SQL)
\* ------------------------------------------------------------------------
\* SELECT ... FOR UPDATE waits until no other transaction holds the row
ForUpdate_NoLock(holder) == TRUE

ForUpdate(holder) == holder = 0

\* deduct_credits after the locked read: the profile row afterwards
DeductProfile(p, v_current_credits, p_amount) ==
    IF InsufficientCredits(v_current_credits, p_amount) THEN p
    ELSE [p EXCEPT !.credits_remaining = v_current_credits - p_amount,
                   !.credits_used_this_month = @ + p_amount]

\* deduct_credits: the transaction log afterwards
DeductTransactions(t, v_current_credits, p_amount, p_project_id) ==
    IF InsufficientCredits(v_current_credits, p_amount) THEN t
    ELSE Append(t, [amount |-> 0 - p_amount,
                    balance_after |-> v_current_credits - p_amount,
                    transaction_type |-> "usage", project_id |-> p_project_id,
                    stripe_payment_id |-> Null])

\* deduct_credits: RETURN FALSE / RETURN TRUE
DeductReturns(v_current_credits, p_amount) ==
    ~InsufficientCredits(v_current_credits, p_amount)

\* add_credits raises (and rolls back) when the INSERT violates the CHECK
AddCreditsAccepted(p_transaction_type) == p_transaction_type \in TransactionTypes

AddCreditsProfile_NoUpdate(p, p_amount, p_transaction_type) == p

AddCreditsProfile(p, p_amount, p_transaction_type) ==
    IF AddCreditsAccepted(p_transaction_type)
    THEN [p EXCEPT !.credits_remaining = @ + p_amount]
    ELSE p

AddCreditsTransactions_NoPaymentId(t, p, p_amount, p_transaction_type, p_stripe_payment_id) ==
    Append(t, [amount |-> p_amount,
               balance_after |-> p.credits_remaining + p_amount,
               transaction_type |-> p_transaction_type, project_id |-> 0,
               stripe_payment_id |-> Null])

AddCreditsTransactions(t, p, p_amount, p_transaction_type, p_stripe_payment_id) ==
    IF AddCreditsAccepted(p_transaction_type)
    THEN Append(t, [amount |-> p_amount,
                    balance_after |-> p.credits_remaining + p_amount,
                    transaction_type |-> p_transaction_type, project_id |-> 0,
                    stripe_payment_id |-> p_stripe_payment_id])
    ELSE t

\* ------------------------------------------------------------------------
\* Job dispatch
\* ------------------------------------------------------------------------
\* sendToRunPod: the call is recorded with its payload; accepted = the worker
\* answered with a job handle, otherwise axios throws
Dispatch(by, pid, mode, processed, vocals, edited, tier, accepted) ==
    Append(dispatches,
           [by |-> by, project_id |-> pid, processing_mode |-> mode,
            processed_audio_url |-> processed, vocals_audio_url |-> vocals,
            edited_lyrics |-> edited, subscription_tier |-> tier,
            accepted |-> accepted])

\* response.data.id of the call just made
JobHandle == Len(dispatches) + 1

\* the handler after sendToRunPod: it holds the job handle, or the call threw
\* and the catch of the handler answers 500
AfterDispatch_Swallowed(request, accepted, job) ==
    [request EXCEPT !.pc = "store", !.job = IF accepted THEN job ELSE 0]

AfterDispatch(request, accepted, job) ==
    IF accepted THEN [request EXCEPT !.pc = "store", !.job = job]
    ELSE Answered(request.kind, 500, request.pid)

\* ------------------------------------------------------------------------
\* POST /api/projects
\* ------------------------------------------------------------------------
\* requests a client may send: multipart fields of the create form
CreateInputs ==
    { [file |-> TRUE, lyrics_len |-> 50, processing_type |-> "remove_vocals",
       video_quality |-> "480p", processing_mode |-> Null, notify_on_complete |-> Null],
      [file |-> TRUE, lyrics_len |-> 50, processing_type |-> "remove_vocals",
       video_quality |-> "480p", processing_mode |-> "transcribe_only",
       notify_on_complete |-> "false"],
      [file |-> TRUE, lyrics_len |-> 50, processing_type |-> "both",
       video_quality |-> "480p", processing_mode |-> Null, notify_on_complete |-> Null],
      [file |-> FALSE, lyrics_len |-> 50, processing_type |-> "remove_vocals",
       video_quality |-> "480p", processing_mode |-> Null, notify_on_complete |-> Null],
      [file |-> TRUE, lyrics_len |-> 49, processing_type |-> "remove_vocals",
       video_quality |-> "480p", processing_mode |-> Null, notify_on_complete |-> Null] }

\* uuidv4(): an id no project has
FreshProjectId == CHOOSE p \in ProjectIds :
    /\ projects[p].status = "absent"
    /\ \A q \in ProjectIds : q < p => projects[q].status # "absent"

\* creations whose project row is still to be inserted
Inserting == {q \in Slots : req[q].kind = "create" /\ req[q].pc = "upload"}

\* validation and checkCredits
CreateBegin(r) ==
    /\ Arrives(r)
    /\ Cardinality({p \in ProjectIds : projects[p].status # "absent"})
         + Cardinality(Inserting) < MaxProjects
    /\ \E in \in CreateInputs :
         LET creditsNeeded == calculateCreditsNeeded(in.processing_type, in.video_quality)
             started == [Started("create") EXCEPT !.cost = creditsNeeded,
                                        !.mode = Or(in.processing_mode, "full"),
                                        !.notify = (in.notify_on_complete # "false"),
                                        !.file = in.file,
                                        !.lyrics_len = in.lyrics_len,
                                        !.processing_type = in.processing_type,
                                        !.video_quality = in.video_quality]
         IN req' = [req EXCEPT ![r] =
                IF InvalidUpload(in.file, in.lyrics_len)
                THEN Answered("create", 400, 0)
                ELSE IF ~checkCredits(profile.credits_remaining, creditsNeeded)
                THEN [Answered("create", 402, 0) EXCEPT !.cost = creditsNeeded]
                ELSE [started EXCEPT !.pc = "upload"]]
    /\ nextReq' = nextReq + 1
    /\ UNCHANGED <<profile, transactions, rowLock, projects, dispatches, emails, stripe>>

\* values of the form fields processing_type and video_quality; Null = missing
ProcessingTypes == {"remove_vocals", "isolate_backing", "both", Null}

VideoQualities == {"480p", "720p", "1080p", "4k", "8k", Null}

\* const creditsNeeded = calculateCreditsNeeded({...}), on its own
Quote(r) ==
    /\ \E processing_type \in ProcessingTypes, video_quality \in VideoQualities :
         req' = [req EXCEPT ![r] =
                [Started("create") EXCEPT
                    !.pc = "quoted",
                    !.processing_type = processing_type,
                    !.video_quality = video_quality,
                    !.cost = calculateCreditsNeeded(processing_type, video_quality)]]
    /\ UNCHANGED <<profile, transactions, rowLock, projects, dispatches, emails,
                   nextReq, stripe>>

\* uploadToR2, then the insert of the project row with status queued
\* (the track_count update between them writes a column no handler reads
\* and its result is not looked at).
CreateInsert(r) ==
    /\ req[r].kind = "create" /\ req[r].pc = "upload"
    /\ \/ /\ req' = [req EXCEPT ![r] = Respond(r, 500)]
          /\ UNCHANGED projects
       \/ /\ projects' = [projects EXCEPT ![FreshProjectId] =
                [NoProject EXCEPT !.status = "queued",
                                  !.credits_used = req[r].cost,
                                  !.notify_on_complete = req[r].notify]]
          /\ req' = [req EXCEPT ![r].pc = "deduct", ![r].pid = FreshProjectId]
    /\ UNCHANGED <<profile, transactions, rowLock, dispatches, emails, nextReq, stripe>>

\* deduct_credits, first statement: the locked read of credits_remaining
CreateDeductLock(r) ==
    /\ req[r].kind = "create" /\ req[r].pc = "deduct"
    /\ ForUpdate(rowLock)
    /\ rowLock' = r
    /\ req' = [req EXCEPT ![r].pc = "deduct_locked", ![r].v = profile.credits_remaining]
    /\ UNCHANGED <<profile, transactions, projects, dispatches, emails, nextReq, stripe>>

\* deduct_credits, the rest of the function and its commit; the handler
\* awaits the result and goes on whatever it is
CreateDeductFinish(r) ==
    /\ req[r].kind = "create" /\ req[r].pc = "deduct_locked"
    /\ profile' = DeductProfile(profile, req[r].v, req[r].cost)
    /\ transactions' = DeductTransactions(transactions, req[r].v, req[r].cost, req[r].pid)
    /\ rowLock' = 0
    /\ req' = [req EXCEPT ![r].pc = "dispatch",
                          ![r].debit = IF DeductReturns(req[r].v, req[r].cost)
                                       THEN "true" ELSE "false"]
    /\ UNCHANGED <<projects, dispatches, emails, nextReq, stripe>>

\* getUserProfile and sendToRunPod
CreateDispatch(r) ==
    /\ req[r].kind = "create" /\ req[r].pc = "dispatch"
    /\ \E accepted \in BOOLEAN :
         /\ dispatches' = Dispatch("create", req[r].pid, req[r].mode, Null, Null, Null,
                                   profile.subscription_tier, accepted)
         /\ req' = [req EXCEPT ![r] = AfterDispatch(req[r], accepted, JobHandle)]
    /\ UNCHANGED <<profile, transactions, rowLock, projects, emails, nextReq, stripe>>

\* the update that records the job handle and the first in-flight status
CreateStore(r) ==
    /\ req[r].kind = "create" /\ req[r].pc = "store"
    /\ projects' = [projects EXCEPT ![req[r].pid] =
            [@ EXCEPT !.runpod_job_id = req[r].job,
                      !.status = IF req[r].mode = "transcribe_only"
                                 THEN "transcribing" ELSE "processing",
                      !.processing_started_at = TRUE]]
    /\ req' = [req EXCEPT ![r] = Respond(r, 201)]
    /\ UNCHANGED <<profile, transactions, rowLock, dispatches, emails, nextReq, stripe>>

\* ------------------------------------------------------------------------
\* POST /api/projects/:id/render
\* ------------------------------------------------------------------------
\* edited_lyrics of the request body; Null = missing or not an array
EditedInputs == {Null, "edit_1"}

\* ['awaiting_review', 'transcribed'].includes(project.status)
CanRender_AnyStatus(status) == TRUE

CanRender(status) == status \in {"awaiting_review", "transcribed"}

\* body check, the select of the project, the status and audio checks
RenderBegin(r) ==
    /\ Arrives(r)
    /\ \E pid \in ProjectIds, edited_lyrics \in EditedInputs :
         LET project == projects[pid]
             code == IF edited_lyrics = Null THEN 400
                     ELSE IF project.status = "absent" THEN 404
                     ELSE IF ~CanRender(project.status) THEN 400
                     ELSE IF project.processed_audio_url = Null THEN 400
                     ELSE 0
         IN req' = [req EXCEPT ![r] =
                IF code # 0
                THEN Answered("render", code, pid)
                ELSE [Started("render") EXCEPT !.pc = "update", !.pid = pid,
                                     !.proj = project, !.edited = edited_lyrics]]
    /\ nextReq' = nextReq + 1
    /\ UNCHANGED <<profile, transactions, rowLock, projects, dispatches, emails, stripe>>

\* the update that stores the edited lyrics and sets status rendering
RenderUpdate(r) ==
    /\ req[r].kind = "render" /\ req[r].pc = "update"
    /\ projects' = [projects EXCEPT ![req[r].pid] =
            [@ EXCEPT !.edited_lyrics_json = req[r].edited, !.status = "rendering"]]
    /\ req' = [req EXCEPT ![r].pc = "dispatch"]
    /\ UNCHANGED <<profile, transactions, rowLock, dispatches, emails, nextReq, stripe>>

\* getUserProfile and sendToRunPod in render_only mode
RenderDispatch(r) ==
    /\ req[r].kind = "render" /\ req[r].pc = "dispatch"
    /\ \E accepted \in BOOLEAN :
         /\ dispatches' = Dispatch("render", req[r].pid, "render_only",
                                   req[r].proj.processed_audio_url,
                                   req[r].proj.vocals_audio_url, req[r].edited,
                                   profile.subscription_tier, accepted)
         /\ req' = [req EXCEPT ![r] = AfterDispatch(req[r], accepted, JobHandle)]
    /\ UNCHANGED <<profile, transactions, rowLock, projects, emails, nextReq, stripe>>

\* the update that records the job handle
RenderStore(r) ==
    /\ req[r].kind = "render" /\ req[r].pc = "store"
    /\ projects' = [projects EXCEPT ![req[r].pid].runpod_job_id = req[r].job]
    /\ req' = [req EXCEPT ![r] = Respond(r, 200)]
    /\ UNCHANGED <<profile, transactions, rowLock, dispatches, emails, nextReq, stripe>>

\* ------------------------------------------------------------------------
\* POST /api/projects/:id/transcribe
\* ------------------------------------------------------------------------
\* project.status !== 'queued' is refused
CanTranscribe_AnyStatus(status) == TRUE

CanTranscribe(status) == status = "queued"

\* the select of the project and the status check
TranscribeBegin(r) ==
    /\ Arrives(r)
    /\ \E pid \in ProjectIds :
         LET project == projects[pid]
             code == IF project.status = "absent" THEN 404
                     ELSE IF ~CanTranscribe(project.status) THEN 400
                     ELSE 0
         IN req' = [req EXCEPT ![r] =
                IF code # 0
                THEN Answered("transcribe", code, pid)
                ELSE [Started("transcribe") EXCEPT !.pc = "update", !.pid = pid,
                                     !.proj = project]]
    /\ nextReq' = nextReq + 1
    /\ UNCHANGED <<profile, transactions, rowLock, projects, dispatches, emails, stripe>>

\* the update that sets status transcribing
TranscribeUpdate(r) ==
    /\ req[r].kind = "transcribe" /\ req[r].pc = "update"
    /\ projects' = [projects EXCEPT ![req[r].pid] =
            [@ EXCEPT !.status = "transcribing", !.processing_started_at = TRUE]]
    /\ req' = [req EXCEPT ![r].pc = "dispatch"]
    /\ UNCHANGED <<profile, transactions, rowLock, dispatches, emails, nextReq, stripe>>

\* sendToRunPod in transcribe_only mode (no subscription_tier option: 'free')
TranscribeDispatch(r) ==
    /\ req[r].kind = "transcribe" /\ req[r].pc = "dispatch"
    /\ \E accepted \in BOOLEAN :
         /\ dispatches' = Dispatch("transcribe", req[r].pid, "transcribe_only", Null, Null, Null,
                                   "free", accepted)
         /\ req' = [req EXCEPT ![r] = AfterDispatch(req[r], accepted, JobHandle)]
    /\ UNCHANGED <<profile, transactions, rowLock, projects, emails, nextReq, stripe>>

\* the update that records the job handle
TranscribeStore(r) ==
    /\ req[r].kind = "transcribe" /\ req[r].pc = "store"
    /\ projects' = [projects EXCEPT ![req[r].pid].runpod_job_id = req[r].job]
    /\ req' = [req EXCEPT ![r] = Respond(r, 200)]
    /\ UNCHANGED <<profile, transactions, rowLock, dispatches, emails, nextReq, stripe>>

\* ------------------------------------------------------------------------
\* POST /api/webhooks/runpod
\* ------------------------------------------------------------------------
TranscribedResults ==
    [present |-> TRUE, processed_audio_url |-> "inst_1", vocals_audio_url |-> "voc_1",
     lyrics |-> "timing_1", video_url |-> Null]

RenderResults ==
    [present |-> TRUE, processed_audio_url |-> Null, vocals_audio_url |-> Null,
     lyrics |-> Null, video_url |-> "video_1"]

FullResults ==
    [present |-> TRUE, processed_audio_url |-> "inst_2", vocals_audio_url |-> "voc_2",
     lyrics |-> "timing_2", video_url |-> "video_2"]

\* callback bodies the worker (or anyone who knows the URL) may post
CallbackInputs ==
    { [status |-> "transcribed", results |-> TranscribedResults, error |-> Null],
      [status |-> "transcribed", results |-> NoResults, error |-> Null],
      [status |-> "completed", results |-> FullResults, error |-> Null],
      [status |-> "completed", results |-> RenderResults, error |-> Null],
      [status |-> "completed", results |-> NoResults, error |-> Null],
      [status |-> "failed", results |-> NoResults, error |-> "gpu_error"],
      [status |-> "failed", results |-> NoResults, error |-> Null] }

\* the select of the project row
RunpodBegin(r) ==
    /\ Arrives(r)
    /\ \E pid \in ProjectIds, body \in CallbackInputs :
         req' = [req EXCEPT ![r] =
                [Started("runpod") EXCEPT !.pc = "update", !.pid = pid,
                                !.proj = projects[pid], !.status = body.status,
                                !.results = body.results, !.err = body.error]]
    /\ nextReq' = nextReq + 1
    /\ UNCHANGED <<profile, transactions, rowLock, projects, dispatches, emails, stripe>>

\* the row after the update of the transcribed branch
TranscribedUpdate(current, results) ==
    [current EXCEPT !.status = "awaiting_review",
                    !.processed_audio_url = Assigned(results.processed_audio_url, @),
                    !.vocals_audio_url = Assigned(results.vocals_audio_url, @),
                    !.lyrics_json = Assigned(results.lyrics, @)]

\* the row after the update of the completed branch; project is the row as
\* selected at the start of the handler
CompletedUpdate(current, results, project) ==
    [current EXCEPT !.status = "completed",
                    !.processed_audio_url =
                        Or(results.processed_audio_url, project.processed_audio_url),
                    !.vocals_audio_url =
                        Or(results.vocals_audio_url, project.vocals_audio_url),
                    !.lyrics_json = Or(results.lyrics, project.lyrics_json),
                    !.video_url = Assigned(results.video_url, @),
                    !.processing_completed_at = TRUE]

\* the row after the update of the failed branch
FailedUpdate_Repeated(current, processingError) ==
    [current EXCEPT !.status = "failed",
                    !.error_message = IF @ = Null
                                      THEN Or(processingError, "Processing failed")
                                      ELSE "repeated",
                    !.processing_completed_at = TRUE]

FailedUpdate(current, processingError) ==
    [current EXCEPT !.status = "failed",
                    !.error_message = Or(processingError, "Processing failed"),
                    !.processing_completed_at = TRUE]

\* project && project.notify_on_complete !== false
WantsEmail_Always(project) == TRUE

WantsEmail(project) == project.status # "absent" /\ project.notify_on_complete

\* the branch of the if / else-if chain a callback body takes
Branch(status, results) ==
    IF status = "transcribed" /\ results.present THEN "transcribed"
    ELSE IF status = "completed" /\ results.present THEN "completed"
    ELSE IF status = "failed" THEN "failed"
    ELSE "none"

\* the tables the handlers write
Database == [projects |-> projects, profile |-> profile, transactions |-> transactions]

\* the database after the failed branch: one update of the project row,
\* .eq('id', project_id), which matches no row when the project does not exist
FailedBranch_Refund(db, pid, processingError) ==
    IF db.projects[pid].status = "absent" THEN db
    ELSE
    [db EXCEPT !.projects[pid] = FailedUpdate(@, processingError),
               !.profile = AddCreditsProfile(@, db.projects[pid].credits_used, "refund"),
               !.transactions = AddCreditsTransactions(@, db.profile,
                                    db.projects[pid].credits_used, "refund", Null)]

FailedBranch(db, pid, processingError) ==
    IF db.projects[pid].status = "absent" THEN db
    ELSE [db EXCEPT !.projects[pid] = FailedUpdate(@, processingError)]

\* the database after the transcribed branch
TranscribedBranch(db, pid, results) ==
    IF db.projects[pid].status = "absent" THEN db
    ELSE [db EXCEPT !.projects[pid] = TranscribedUpdate(@, results)]

\* the database after the completed branch
CompletedBranch(db, pid, results, project) ==
    IF db.projects[pid].status = "absent" THEN db
    ELSE [db EXCEPT !.projects[pid] = CompletedUpdate(@, results, project)]

\* the branch on the reported status and its update
RunpodUpdate(r) ==
    /\ req[r].kind = "runpod" /\ req[r].pc = "update"
    /\ LET pid == req[r].pid
           branch == Branch(req[r].status, req[r].results)
           after == CASE branch = "transcribed" ->
                            TranscribedBranch(Database, pid, req[r].results)
                      [] branch = "completed" ->
                            CompletedBranch(Database, pid, req[r].results, req[r].proj)
                      [] branch = "failed" -> FailedBranch(Database, pid, req[r].err)
                      [] OTHER -> Database
       IN /\ projects' = after.projects
          /\ profile' = after.profile
          /\ transactions' = after.transactions
          /\ req' = [req EXCEPT ![r] =
                IF branch \in {"completed", "failed"} /\ WantsEmail(req[r].proj)
                THEN [req[r] EXCEPT !.pc = "notify"]
                ELSE Respond(r, 200)]
    /\ UNCHANGED <<rowLock, dispatches, emails, nextReq, stripe>>

\* the handler after sendCompletionEmail / sendFailureEmail returned: the
\* functions catch their own errors, so the handler goes on to
\* res.json({received: true})
AfterEmail_Throws(request, outcome) ==
    Answered(request.kind, IF outcome = "api_error" THEN 500 ELSE 200, request.pid)

AfterEmail(request, outcome) == Answered(request.kind, 200, request.pid)

\* sendCompletionEmail / sendFailureEmail: the address may be missing and the
\* email API may fail; both are caught inside; then res.json({received: true})
RunpodNotify(r) ==
    /\ req[r].kind = "runpod" /\ req[r].pc = "notify"
    /\ \E outcome \in {"sent", "no_address", "api_error"} :
         /\ emails' = IF outcome = "sent"
                      THEN Append(emails, [project_id |-> req[r].pid,
                                           goal |-> req[r].status])
                      ELSE emails
         /\ req' = [req EXCEPT ![r] = AfterEmail(req[r], outcome)]
    /\ UNCHANGED <<profile, transactions, rowLock, projects, dispatches, nextReq, stripe>>

\* ------------------------------------------------------------------------
\* POST /api/webhooks/stripe
\* ------------------------------------------------------------------------
CheckoutEvent == [NoEvent EXCEPT !.sig = TRUE, !.type = "checkout.session.completed"]

\* event deliveries; sig = the signature verifies against the webhook secret
StripeEvents ==
    { [CheckoutEvent EXCEPT !.sig = FALSE, !.purchase = TRUE, !.credits = 10,
                            !.payment_intent = "pi_1"],
      [CheckoutEvent EXCEPT !.purchase = TRUE, !.credits = 10, !.payment_intent = "pi_1"],
      [CheckoutEvent EXCEPT !.subscription = TRUE, !.price = "price_starter",
                            !.sub = "sub_1"],
      [CheckoutEvent EXCEPT !.subscription = TRUE, !.price = "price_pro",
                            !.sub = "sub_2", !.is_upgrade = TRUE],
      [CheckoutEvent EXCEPT !.subscription = TRUE, !.price = "price_other",
                            !.sub = "sub_3"],
      [NoEvent EXCEPT !.sig = TRUE, !.type = "customer.subscription.created",
                      !.customer = Customer, !.price = "price_starter", !.sub = "sub_1"],
      [NoEvent EXCEPT !.sig = TRUE, !.type = "customer.subscription.updated",
                      !.customer = Customer, !.price = "price_other", !.sub = "sub_3"],
      [NoEvent EXCEPT !.sig = TRUE, !.type = "customer.subscription.created",
                      !.customer = "cus_other", !.price = "price_starter",
                      !.sub = "sub_4"],
      [NoEvent EXCEPT !.sig = TRUE, !.type = "customer.subscription.deleted",
                      !.customer = Customer, !.sub = "sub_1"],
      [NoEvent EXCEPT !.sig = TRUE, !.type = "invoice.paid", !.customer = Customer,
                      !.cycle = TRUE],
      [NoEvent EXCEPT !.sig = TRUE, !.type = "invoice.paid", !.customer = Customer] }

\* the step of the switch an event starts at; "respond" when nothing is to do
StripeRoute(ev) ==
    CASE ev.type = "checkout.session.completed" ->
            IF ev.purchase THEN "purchase"
            ELSE IF ev.subscription THEN "grant" ELSE "respond"
      [] ev.type \in {"customer.subscription.created", "customer.subscription.updated"} ->
            "upsert"
      [] ev.type = "customer.subscription.deleted" -> "deleted"
      [] ev.type = "invoice.paid" -> IF ev.cycle THEN "invoice" ELSE "respond"
      [] OTHER -> "respond"

\* stripe.webhooks.constructEvent throws unless the signature verifies
constructEvent_Unverified(ev) == TRUE

constructEvent(ev) == ev.sig

\* the handler takes up the delivery of ev: constructEvent, then the switch
\* on event.type
StripeReceive(r, ev) ==
    /\ Arrives(r)
    /\ req' = [req EXCEPT ![r] =
                IF ~constructEvent(ev)
                THEN Answered("stripe", 400, 0)
                ELSE IF StripeRoute(ev) = "respond"
                THEN Answered("stripe", 200, 0)
                ELSE [Started("stripe") EXCEPT !.pc = StripeRoute(ev),
                                     !.ev = ev]]
    /\ nextReq' = nextReq + 1
    /\ UNCHANGED <<profile, transactions, rowLock, projects, dispatches, emails>>

\* a delivery to the webhook URL, by the payment processor or by anyone else
StripeBegin(r) ==
    /\ \E ev \in StripeEvents : StripeReceive(r, ev)
    /\ UNCHANGED stripe

\* checkout.session.completed, metadata.type = credit_purchase: add_credits
StripePurchase(r) ==
    /\ req[r].kind = "stripe" /\ req[r].pc = "purchase"
    /\ ForUpdate(rowLock)
    /\ profile' = AddCreditsProfile(profile, req[r].ev.credits, "purchase")
    /\ transactions' = AddCreditsTransactions(transactions, profile, req[r].ev.credits,
                                              "purchase", req[r].ev.payment_intent)
    /\ req' = [req EXCEPT ![r] =
            IF req[r].ev.subscription THEN [req[r] EXCEPT !.pc = "grant"]
            ELSE Respond(r, 200)]
    /\ UNCHANGED <<rowLock, projects, dispatches, emails, nextReq, stripe>>

\* p_transaction_type: isUpgrade ? 'upgrade' : 'subscription_renewal'
GrantType(isUpgrade) == IF isUpgrade THEN "upgrade" ELSE "subscription_renewal"

\* checkout.session.completed, mode = subscription: the plan of the price,
\* then add_credits with the plan's monthly credits
StripeGrant(r) ==
    /\ req[r].kind = "stripe" /\ req[r].pc = "grant"
    /\ ForUpdate(rowLock)
    /\ LET plan == PlanByPrice(req[r].ev.price)
       IN IF plan # Null
          THEN /\ profile' = AddCreditsProfile(profile, PlanCredits(plan),
                                               GrantType(req[r].ev.is_upgrade))
               /\ transactions' = AddCreditsTransactions(transactions, profile,
                                        PlanCredits(plan),
                                        GrantType(req[r].ev.is_upgrade), Null)
          ELSE UNCHANGED <<profile, transactions>>
    /\ req' = [req EXCEPT ![r] = Respond(r, 200)]
    /\ UNCHANGED <<rowLock, projects, dispatches, emails, nextReq, stripe>>

\* if (profile) { ... if (plan) { update } }
Resolved_Always(found, plan) == TRUE

Resolved(found, plan) == found /\ plan # Null

\* customer.subscription.created / updated: profile by customer, plan by
\* price, then the update of tier and subscription reference
StripeUpsert(r) ==
    /\ req[r].kind = "stripe" /\ req[r].pc = "upsert"
    /\ ForUpdate(rowLock)
    /\ LET plan == PlanByPrice(req[r].ev.price)
       IN profile' = IF Resolved(profile.stripe_customer_id = req[r].ev.customer, plan)
                     THEN [profile EXCEPT !.subscription_tier = plan,
                                          !.stripe_subscription_id = req[r].ev.sub]
                     ELSE profile
    /\ req' = [req EXCEPT ![r] = Respond(r, 200)]
    /\ UNCHANGED <<transactions, rowLock, projects, dispatches, emails, nextReq, stripe>>

\* update({ subscription_tier: 'free', stripe_subscription_id: null })
Unsubscribed_KeepTier(p) == [p EXCEPT !.stripe_subscription_id = Null]

Unsubscribed(p) ==
    [p EXCEPT !.subscription_tier = "free", !.stripe_subscription_id = Null]

\* customer.subscription.deleted: update .eq('stripe_customer_id', customer)
StripeDeleted(r) ==
    /\ req[r].kind = "stripe" /\ req[r].pc = "deleted"
    /\ ForUpdate(rowLock)
    /\ profile' = IF profile.stripe_customer_id = req[r].ev.customer
                  THEN Unsubscribed(profile)
                  ELSE profile
    /\ req' = [req EXCEPT ![r] = Respond(r, 200)]
    /\ UNCHANGED <<transactions, rowLock, projects, dispatches, emails, nextReq, stripe>>

\* invoice.paid, subscription_cycle: the profile of the customer and its tier
StripeInvoiceRead(r) ==
    /\ req[r].kind = "stripe" /\ req[r].pc = "invoice"
    /\ req' = [req EXCEPT ![r] =
            IF profile.stripe_customer_id = req[r].ev.customer
            THEN [req[r] EXCEPT !.pc = "renew", !.tier = profile.subscription_tier]
            ELSE Respond(r, 200)]
    /\ UNCHANGED <<profile, transactions, rowLock, projects, dispatches, emails, nextReq, stripe>>

\* invoice.paid: add_credits with the monthly credits of the tier read
StripeInvoiceRenew(r) ==
    /\ req[r].kind = "stripe" /\ req[r].pc = "renew"
    /\ ForUpdate(rowLock)
    /\ profile' = AddCreditsProfile(profile, PlanCredits(req[r].tier),
                                    "subscription_renewal")
    /\ transactions' = AddCreditsTransactions(transactions, profile,
                            PlanCredits(req[r].tier), "subscription_renewal", Null)
    /\ req' = [req EXCEPT ![r].pc = "reset"]
    /\ UNCHANGED <<rowLock, projects, dispatches, emails, nextReq, stripe>>

\* update({ credits_used_this_month: 0 })
ResetUsage_Keep(p) == p

ResetUsage(p) == [p EXCEPT !.credits_used_this_month = 0]

\* invoice.paid: update({ credits_used_this_month: 0 })
StripeInvoiceReset(r) ==
    /\ req[r].kind = "stripe" /\ req[r].pc = "reset"
    /\ ForUpdate(rowLock)
    /\ profile' = ResetUsage(profile)
    /\ req' = [req EXCEPT ![r] = Respond(r, 200)]
    /\ UNCHANGED <<transactions, rowLock, projects, dispatches, emails, nextReq, stripe>>

\* ------------------------------------------------------------------------
\* POST /api/stripe/create-checkout, and the payment processor
\* ------------------------------------------------------------------------
\* price_id of the request body
CheckoutInputs == {"price_starter", "price_pro"}

\* customer.id of the n-th stripe.customers.create
CustomerId(n) ==
    IF n = 1 THEN Customer ELSE IF n = 2 THEN "cus_2" ELSE IF n = 3 THEN "cus_3"
    ELSE "cus_4"

\* id of the n-th subscription the processor creates
SubscriptionId(n) ==
    IF n = 1 THEN "sub_1" ELSE IF n = 2 THEN "sub_2" ELSE IF n = 3 THEN "sub_3"
    ELSE "sub_4"

\* getUserProfile, and what is to do for the profile read
CheckoutBegin(r) ==
    /\ Arrives(r)
    /\ \E price_id \in CheckoutInputs :
         req' = [req EXCEPT ![r] =
                [Started("checkout") EXCEPT
                    !.price_id = price_id,
                    !.customerId = profile.stripe_customer_id,
                    !.subscriptionId = profile.stripe_subscription_id,
                    !.pc = IF profile.stripe_customer_id = Null THEN "customer"
                           ELSE IF profile.stripe_subscription_id # Null THEN "cancel"
                           ELSE "session"]]
    /\ nextReq' = nextReq + 1
    /\ UNCHANGED <<profile, transactions, rowLock, projects, dispatches, emails, stripe>>

\* stripe.customers.create and the update of stripe_customer_id
CheckoutCustomer(r) ==
    /\ req[r].kind = "checkout" /\ req[r].pc = "customer"
    /\ ForUpdate(rowLock)
    /\ LET customerId == CustomerId(stripe.customers + 1) IN
         /\ stripe' = [stripe EXCEPT !.customers = @ + 1]
         /\ profile' = [profile EXCEPT !.stripe_customer_id = customerId]
         /\ req' = [req EXCEPT ![r].customerId = customerId,
                               ![r].pc = IF req[r].subscriptionId # Null
                                         THEN "cancel" ELSE "session"]
    /\ UNCHANGED <<transactions, rowLock, projects, dispatches, emails, nextReq>>

\* stripe.subscriptions.cancel of the subscription read from the profile; the
\* call may throw, which the handler catches and goes on to the new session
CheckoutCancel(r) ==
    /\ req[r].kind = "checkout" /\ req[r].pc = "cancel"
    /\ \/ /\ stripe' = [stripe EXCEPT
                    !.subscriptions = @ \ {req[r].subscriptionId},
                    !.events = @ \cup
                        {[NoEvent EXCEPT !.sig = TRUE,
                                         !.type = "customer.subscription.deleted",
                                         !.customer = req[r].customerId,
                                         !.sub = req[r].subscriptionId]}]
          /\ req' = [req EXCEPT ![r].isUpgrade = TRUE, ![r].pc = "clear"]
       \/ /\ req' = [req EXCEPT ![r].pc = "session"]
          /\ UNCHANGED stripe
    /\ UNCHANGED <<profile, transactions, rowLock, projects, dispatches, emails, nextReq>>

\* update({ stripe_subscription_id: null })
CheckoutClear(r) ==
    /\ req[r].kind = "checkout" /\ req[r].pc = "clear"
    /\ ForUpdate(rowLock)
    /\ profile' = [profile EXCEPT !.stripe_subscription_id = Null]
    /\ req' = [req EXCEPT ![r].pc = "session"]
    /\ UNCHANGED <<transactions, rowLock, projects, dispatches, emails, nextReq, stripe>>

\* stripe.checkout.sessions.create in subscription mode, and the response
CheckoutSession(r) ==
    /\ req[r].kind = "checkout" /\ req[r].pc = "session"
    /\ stripe' = [stripe EXCEPT !.sessions =
            Append(@, [customer |-> req[r].customerId, price |-> req[r].price_id,
                       is_upgrade |-> req[r].isUpgrade])]
    /\ req' = [req EXCEPT ![r] = Respond(r, 200)]
    /\ UNCHANGED <<profile, transactions, rowLock, projects, dispatches, emails, nextReq>>

\* the sequence s without its i-th element
Without(s, i) == SubSeq(s, 1, i - 1) \o SubSeq(s, i + 1, Len(s))

\* the user pays an open checkout session: the processor starts the
\* subscription and has two events to deliver
CustomerPays ==
    /\ \E i \in DOMAIN stripe.sessions :
         LET session == stripe.sessions[i]
             id == SubscriptionId(stripe.created + 1)
         IN stripe' = [stripe EXCEPT
                !.sessions = Without(@, i),
                !.created = @ + 1,
                !.subscriptions = @ \cup {id},
                !.events = @ \cup
                    {[NoEvent EXCEPT !.sig = TRUE,
                                     !.type = "customer.subscription.created",
                                     !.customer = session.customer,
                                     !.price = session.price, !.sub = id],
                     [CheckoutEvent EXCEPT !.subscription = TRUE,
                                           !.price = session.price, !.sub = id,
                                           !.is_upgrade = session.is_upgrade]}]
    /\ UNCHANGED <<profile, transactions, rowLock, projects, dispatches, emails, req,
                   nextReq>>

\* the processor delivers one of its events to the webhook
StripeDeliver(r) ==
    /\ \E ev \in stripe.events :
         /\ StripeReceive(r, ev)
         /\ stripe' = [stripe EXCEPT !.events = @ \ {ev}]

\* ------------------------------------------------------------------------
\* Specification
\* ------------------------------------------------------------------------
\* the profile row of a signed-up user (handle_new_user and the column defaults)
NewProfile ==
    [subscription_tier |-> "free", credits_remaining |-> DefaultCredits,
     credits_used_this_month |-> 0, stripe_customer_id |-> Null,
     stripe_subscription_id |-> Null]

InitRest ==
    /\ transactions = <<>>
    /\ rowLock = 0
    /\ projects = [p \in ProjectIds |-> NoProject]
    /\ dispatches = <<>>
    /\ emails = <<>>
    /\ req = [r \in Slots |-> IdleReq]
    /\ nextReq = 1
    /\ stripe = NoStripe

Init == profile = NewProfile /\ InitRest

\* the same user, before or after a first checkout was opened (create-checkout
\* stores the customer reference)
LedgerInit ==
    /\ profile \in {NewProfile, [NewProfile EXCEPT !.stripe_customer_id = Customer]}
    /\ InitRest

\* project creation, the user's actions on a project and the worker's callbacks
Next ==
    \E r \in Slots :
        \/ CreateBegin(r) \/ CreateInsert(r) \/ CreateDeductLock(r)
        \/ CreateDeductFinish(r) \/ CreateDispatch(r) \/ CreateStore(r)
        \/ RenderBegin(r) \/ RenderUpdate(r) \/ RenderDispatch(r) \/ RenderStore(r)
        \/ TranscribeBegin(r) \/ TranscribeUpdate(r) \/ TranscribeDispatch(r)
        \/ TranscribeStore(r)
        \/ RunpodBegin(r) \/ RunpodUpdate(r) \/ RunpodNotify(r)

Spec == Init /\ [][Next]_vars

\* project creation and the payment processor's events: every writer of the ledger
LedgerNext ==
    \E r \in Slots :
        \/ CreateBegin(r) \/ CreateInsert(r) \/ CreateDeductLock(r)
        \/ CreateDeductFinish(r) \/ CreateDispatch(r) \/ CreateStore(r)
        \/ StripeBegin(r) \/ StripePurchase(r) \/ StripeGrant(r) \/ StripeUpsert(r)
        \/ StripeDeleted(r) \/ StripeInvoiceRead(r) \/ StripeInvoiceRenew(r)
        \/ StripeInvoiceReset(r)

LedgerSpec == LedgerInit /\ [][LedgerNext]_vars

\* the database as one accepted creation of cost 3 leaves it: the debit is
\* recorded, the job is with the worker, the project is in its first
\* in-flight status
ReviewInit ==
    /\ \E in \in { [mode |-> "transcribe_only", notify |-> TRUE],
                    [mode |-> "transcribe_only", notify |-> FALSE],
                    [mode |-> "full", notify |-> TRUE] } :
          /\ projects = [p \in ProjectIds |->
                IF p = 1
                THEN [NoProject EXCEPT
                        !.status = IF in.mode = "transcribe_only"
                                   THEN "transcribing" ELSE "processing",
                        !.credits_used = DefaultCredits,
                        !.notify_on_complete = in.notify,
                        !.runpod_job_id = 1,
                        !.processing_started_at = TRUE]
                ELSE NoProject]
          /\ dispatches = <<[by |-> "create", project_id |-> 1,
                             processing_mode |-> in.mode,
                             processed_audio_url |-> Null, vocals_audio_url |-> Null,
                             edited_lyrics |-> Null, subscription_tier |-> "free",
                             accepted |-> TRUE]>>
    /\ profile = DeductProfile(NewProfile, DefaultCredits, DefaultCredits)
    /\ transactions = DeductTransactions(<<>>, DefaultCredits, DefaultCredits, 1)
    /\ rowLock = 0
    /\ emails = <<>>
    /\ req = [r \in Slots |-> IdleReq]
    /\ nextReq = 1
    /\ stripe = NoStripe

\* the review of a created project: the worker's callbacks and the render action
ReviewNext ==
    \E r \in Slots :
        \/ RenderBegin(r) \/ RenderUpdate(r) \/ RenderDispatch(r) \/ RenderStore(r)
        \/ RunpodBegin(r) \/ RunpodUpdate(r) \/ RunpodNotify(r)

ReviewSpec == ReviewInit /\ [][ReviewNext]_vars

\* the pricing of creation requests
PricingNext == \E r \in Slots : Quote(r)

PricingSpec == Init /\ [][PricingNext]_vars

\* subscribing: checkouts, payments, and the events they make the processor send
CheckoutNext ==
    \/ \E r \in Slots :
        \/ CheckoutBegin(r) \/ CheckoutCustomer(r) \/ CheckoutCancel(r)
        \/ CheckoutClear(r) \/ CheckoutSession(r)
        \/ StripeDeliver(r) \/ StripeGrant(r) \/ StripeUpsert(r) \/ StripeDeleted(r)
    \/ CustomerPays

\* the user on the starter plan: the first checkout was paid and both of
\* its events were handled
Subscribed ==
    /\ profile = [NewProfile EXCEPT
            !.subscription_tier = "starter",
            !.credits_remaining = DefaultCredits + PlanCredits("starter"),
            !.stripe_customer_id = Customer,
            !.stripe_subscription_id = SubscriptionId(1)]
    /\ transactions = <<[amount |-> PlanCredits("starter"),
                         balance_after |-> DefaultCredits + PlanCredits("starter"),
                         transaction_type |-> "subscription_renewal",
                         project_id |-> 0, stripe_payment_id |-> Null]>>
    /\ stripe = [NoStripe EXCEPT !.customers = 1, !.created = 1,
                                 !.subscriptions = {SubscriptionId(1)}]
    /\ rowLock = 0 /\ dispatches = <<>> /\ emails = <<>>
    /\ projects = [p \in ProjectIds |-> NoProject]

\* a new user, or a user on the starter plan
CheckoutInit ==
    \/ Init
    \/ Subscribed /\ req = [r \in Slots |-> IdleReq] /\ nextReq = 1

CheckoutSpec == CheckoutInit /\ [][CheckoutNext]_vars

\* ------------------------------------------------------------------------
\* Steps of the handlers, for the properties below
\* ------------------------------------------------------------------------
\* the step in which the handler in slot r takes up a newly arrived request
ArrivalAt(r) == Arrives(r) /\ nextReq' = nextReq + 1

\* a later step of the handler in slot r
StepOf(r) == ~Free(r) /\ req'[r] # req[r]

Usage(pid) ==
    {i \in DOMAIN transactions : /\ transactions[i].transaction_type = "usage"
                                 /\ transactions[i].project_id = pid}

RECURSIVE Replay(_, _)
\* the balance after the transactions t, applied in order to the balance start
Replay(start, t) ==
    IF t = <<>> THEN start ELSE Replay(start + Head(t).amount, Tail(t))

\* ------------------------------------------------------------------------
\* C1. The balance is never negative, whatever debits and credits have run
\*     and however they interleave, two debits racing on the user included.
\* ------------------------------------------------------------------------
C1_NeverNegative == profile.credits_remaining >= 0

\* of two racing debits one was recorded and took the balance to zero, and
\* the other was refused
C1_Witness ==
    /\ \E r \in Slots : req[r].kind = "create" /\ req[r].debit = "false"
    /\ \E i \in DOMAIN transactions : transactions[i].transaction_type = "usage"
    /\ profile.credits_remaining = 0

\* ------------------------------------------------------------------------
\* C2. A creation dispatches a job only if its debit succeeded: every job
\*     the worker took from a project creation is for a project with a
\*     usage transaction, so of two creations that the balance covers only
\*     once at most one dispatches.
\* ------------------------------------------------------------------------
C2_DispatchOnlyIfDebited ==
    \A i \in DOMAIN dispatches :
        dispatches[i].by = "create" /\ dispatches[i].accepted =>
            Usage(dispatches[i].project_id) # {}

\* ------------------------------------------------------------------------
\* C3. A debit fails exactly when the amount exceeds the balance at its
\*     check; a failed debit changes neither the profile nor the log, a
\*     successful one lowers the balance by the amount, raises the used
\*     counter by it and appends one usage transaction of minus the amount.
\* ------------------------------------------------------------------------
DebitReturn(r) == req[r].pc = "deduct_locked" /\ req'[r].pc = "dispatch"

C3_Debit ==
    [][\A r \in Slots : DebitReturn(r) =>
        LET amount == req[r].cost IN
        /\ req'[r].debit = "false" <=> amount > profile.credits_remaining
        /\ req'[r].debit = "false" =>
              profile' = profile /\ transactions' = transactions
        /\ req'[r].debit # "false" =>
              /\ profile' =
                    [profile EXCEPT !.credits_remaining = @ - amount,
                                    !.credits_used_this_month = @ + amount]
              /\ transactions' = Append(transactions,
                    [amount |-> 0 - amount,
                     balance_after |-> profile.credits_remaining - amount,
                     transaction_type |-> "usage", project_id |-> req[r].pid,
                     stripe_payment_id |-> Null])]_vars

\* a debit has succeeded after a purchase, and another has failed
C3_Witness ==
    /\ \E r \in Slots : req[r].kind = "create" /\ req[r].debit = "false"
    /\ \E i \in DOMAIN transactions : transactions[i].transaction_type = "usage"
    /\ \E i \in DOMAIN transactions : transactions[i].transaction_type = "purchase"

\* ------------------------------------------------------------------------
\* C4. Replaying the user's transactions in order from the starting grant
\*     gives the current balance, and the log only ever grows at its end.
\* ------------------------------------------------------------------------
LedgerReplays == Replay(DefaultCredits, transactions) = profile.credits_remaining

C4_LedgerReplays ==
    [][/\ LedgerReplays'
       /\ Len(transactions') >= Len(transactions)
       /\ SubSeq(transactions', 1, Len(transactions)) = transactions]_vars

\* a debit, a purchase and a subscription grant are all in the log
C4_Witness ==
    /\ \E i \in DOMAIN transactions : transactions[i].transaction_type = "usage"
    /\ \E i \in DOMAIN transactions : transactions[i].transaction_type = "purchase"
    /\ \E i \in DOMAIN transactions :
            transactions[i].transaction_type = "subscription_renewal"

\* ------------------------------------------------------------------------
\* C5. A project's status changes only along the listed transitions, and a
\*     completed callback for a project that is not in processing or
\*     rendering leaves the project as it is.
\* ------------------------------------------------------------------------
LegalMoves ==
    { <<"absent", "queued">>,
      <<"queued", "processing">>, <<"queued", "transcribing">>,
      <<"transcribing", "awaiting_review">>, <<"awaiting_review", "rendering">>,
      <<"processing", "completed">>, <<"rendering", "completed">> }
    \cup { <<s, "failed">> : s \in {"queued", "processing", "transcribing",
                                    "awaiting_review", "rendering"} }

CallbackUpdate(r, status) ==
    /\ StepOf(r) /\ req[r].kind = "runpod" /\ req[r].pc = "update"
    /\ req[r].status = status

C5_LegalTransitions ==
    [][/\ \A p \in ProjectIds :
            projects'[p].status # projects[p].status =>
                <<projects[p].status, projects'[p].status>> \in LegalMoves
       /\ \A r \in Slots :
            /\ CallbackUpdate(r, "completed")
            /\ projects[req[r].pid].status \notin {"processing", "rendering"}
            => projects' = projects]_vars

\* ------------------------------------------------------------------------
\* C6. completed and failed are terminal: no step changes the status of a
\*     project that is completed or failed.
\* ------------------------------------------------------------------------
C6_TerminalStates ==
    [][\A p \in ProjectIds :
            projects[p].status \in {"completed", "failed"} =>
                projects'[p].status = projects[p].status]_vars

\* ------------------------------------------------------------------------
\* C7. A transcribed callback (with results) acts only on a project in
\*     transcribing, where it stores the audio references and the timing and
\*     sets awaiting_review; in any other state it changes nothing.
\* ------------------------------------------------------------------------
C7_TranscribedOnlyFromTranscribing ==
    [][\A r \in Slots :
            CallbackUpdate(r, "transcribed") /\ req[r].results.present =>
                LET p == req[r].pid IN
                IF projects[p].status = "transcribing"
                THEN projects' = [projects EXCEPT ![p] =
                        [@ EXCEPT !.status = "awaiting_review",
                                  !.processed_audio_url =
                                        req[r].results.processed_audio_url,
                                  !.vocals_audio_url = req[r].results.vocals_audio_url,
                                  !.lyrics_json = req[r].results.lyrics]]
                ELSE projects' = projects]_vars

\* ------------------------------------------------------------------------
\* C8. Render is accepted only for a project read in awaiting_review (or
\*     transcribed) with processed audio; once accepted it stores the edited
\*     timing, sets rendering and dispatches in render_only mode with the
\*     audio references read from the project and the submitted timing; from
\*     any other status it is rejected, changes no project and dispatches
\*     nothing.
\* ------------------------------------------------------------------------
C8_Render ==
    [][/\ \A r \in Slots :
            ArrivalAt(r) /\ req'[r].kind = "render" =>
                LET p == req'[r].pid IN
                /\ projects' = projects /\ dispatches' = dispatches
                /\ req'[r].pc # "done" =>
                      /\ projects[p].status \in {"awaiting_review", "transcribed"}
                      /\ projects[p].processed_audio_url # Null
                      /\ req'[r].proj = projects[p]
                      /\ req'[r].edited # Null
                /\ projects[p].status \notin {"awaiting_review", "transcribed"} =>
                      req'[r].pc = "done" /\ req'[r].resp \in {400, 404}
       /\ \A r \in Slots :
            StepOf(r) /\ req[r].kind = "render" /\ req[r].pc = "update" =>
                /\ projects'[req[r].pid].status = "rendering"
                /\ projects'[req[r].pid].edited_lyrics_json = req[r].edited
                /\ req'[r].pc = "dispatch"
       /\ \A r \in Slots :
            StepOf(r) /\ req[r].kind = "render" /\ req[r].pc = "dispatch" =>
                /\ Len(dispatches') = Len(dispatches) + 1
                /\ LET d == dispatches'[Len(dispatches')] IN
                      /\ d.project_id = req[r].pid
                      /\ d.processing_mode = "render_only"
                      /\ d.processed_audio_url = req[r].proj.processed_audio_url
                      /\ d.vocals_audio_url = req[r].proj.vocals_audio_url
                      /\ d.edited_lyrics = req[r].edited
       /\ Len(dispatches') > Len(dispatches)
            /\ dispatches'[Len(dispatches')].processing_mode = "render_only" =>
                \E r \in Slots : StepOf(r) /\ req[r].kind = "render"
                                           /\ req[r].pc = "dispatch"]_vars

\* a render was accepted: the project is rendering with the edited timing
\* stored, and the worker has the render_only job with that timing
C8_Witness ==
    \E i \in DOMAIN dispatches :
        /\ dispatches[i].processing_mode = "render_only"
        /\ dispatches[i].accepted
        /\ dispatches[i].processed_audio_url = "inst_1"
        /\ dispatches[i].edited_lyrics = "edit_1"
        /\ projects[dispatches[i].project_id].status = "rendering"
        /\ projects[dispatches[i].project_id].edited_lyrics_json = "edit_1"

\* ------------------------------------------------------------------------
\* C9. Transcribe is accepted only for a project read in queued; for a
\*     project in any other status it answers 400, changes no project and
\*     dispatches nothing.
\* ------------------------------------------------------------------------
C9_Transcribe ==
    [][/\ \A r \in Slots :
            ArrivalAt(r) /\ req'[r].kind = "transcribe" =>
                LET p == req'[r].pid IN
                /\ projects' = projects /\ dispatches' = dispatches
                /\ req'[r].pc # "done" => projects[p].status = "queued"
                /\ projects[p].status \notin {"queued", "absent"} =>
                      req'[r].pc = "done" /\ req'[r].resp = 400
       /\ Len(dispatches') > Len(dispatches)
            /\ dispatches'[Len(dispatches')].by = "transcribe" =>
                \E r \in Slots : StepOf(r) /\ req[r].kind = "transcribe"
                                           /\ req[r].pc = "dispatch"]_vars

\* a transcribe request for a project that had left queued was answered 400
C9_Witness ==
    \E r \in Slots :
        /\ req[r].kind = "transcribe" /\ req[r].pc = "done" /\ req[r].resp = 400
        /\ projects[req[r].pid].status \notin {"queued", "absent"}

\* ------------------------------------------------------------------------
\* C10. A failed callback refunds nothing: no step of its handler changes
\*      the profile or the transaction log, so the balance after it is the
\*      balance the creation debit left.
\* ------------------------------------------------------------------------
FailedCallbackStep(r) ==
    \/ ArrivalAt(r) /\ req'[r].kind = "runpod" /\ req'[r].status = "failed"
    \/ StepOf(r) /\ req[r].kind = "runpod" /\ req[r].status = "failed"

TerminalCallbackUpdate(r) ==
    /\ StepOf(r) /\ req[r].kind = "runpod" /\ req[r].pc = "update"
    /\ \/ req[r].status = "completed" /\ req[r].results.present
       \/ req[r].status = "failed"

DatabaseAfter ==
    [projects |-> projects', profile |-> profile', transactions |-> transactions']

\* the database after the callback of handler r is applied to db by a handler
\* that read the row read
Redelivered(db, r, read) ==
    IF req[r].status = "failed"
    THEN FailedBranch(db, req[r].pid, req[r].err)
    ELSE CompletedBranch(db, req[r].pid, req[r].results, read)

C11_TerminalCallbackIdempotent ==
    [][\A r \in Slots :
        /\ TerminalCallbackUpdate(r) =>
              /\ Redelivered(DatabaseAfter, r, projects'[req[r].pid]) = DatabaseAfter
              /\ Redelivered(DatabaseAfter, r, req[r].proj) = DatabaseAfter
        /\ StepOf(r) /\ req[r].kind = "runpod" =>
              /\ profile' = profile /\ transactions' = transactions
              /\ req'[r].resp \in {0, 200}]_vars

\* a project has received the completed callback twice: both deliveries were
\* acknowledged and both sent the notification
C11_Witness ==
    \E p \in ProjectIds :
        /\ projects[p].status = "completed"
        /\ \A r \in Slots : req[r] = Answered("runpod", 200, p)
        /\ Len(emails) = 2
        /\ \A i \in DOMAIN emails : emails[i] = [project_id |-> p, goal |-> "completed"]

\* ------------------------------------------------------------------------
\* C12. A creation that passes validation and whose cost exceeds the balance
\*      is answered 402 with credits_needed equal to the cost computed from
\*      the request, and ends there: the profile, the transaction log, the
\*      projects and the dispatches are unchanged and no later step (upload,
\*      insert, debit, dispatch) follows. 402 is answered in no other case.
\* ------------------------------------------------------------------------
CreateCosts ==
    {calculateCreditsNeeded(in.processing_type, in.video_quality) : in \in CreateInputs}

C12_InsufficientCredits ==
    [][\A r \in Slots :
        ArrivalAt(r) /\ req'[r].kind = "create" /\ req'[r].resp # 400 =>
            /\ req'[r].cost \in CreateCosts
            /\ req'[r].cost > profile.credits_remaining =>
                  /\ req'[r].pc = "done" /\ req'[r].resp = 402
                  /\ profile' = profile /\ transactions' = transactions
                  /\ projects' = projects /\ dispatches' = dispatches
            /\ req'[r].resp = 402 => req'[r].cost > profile.credits_remaining]_vars

\* a new user asked for both vocal versions (cost 4 against 3 credits) and
\* was answered 402; nothing was written
C12_Witness ==
    /\ \E r \in Slots : /\ req[r].kind = "create" /\ req[r].pc = "done"
                         /\ req[r].resp = 402 /\ req[r].cost = 4
    /\ profile = NewProfile /\ transactions = <<>> /\ dispatches = <<>>
    /\ \A p \in ProjectIds : projects[p] = NoProject

\* ------------------------------------------------------------------------
\* C13. A creation that passed the credit check and whose upload, insert and
\*      dispatch all succeeded ends with: exactly one usage transaction of
\*      minus the cost for its project, exactly one dispatch by the creation,
\*      the job handle of that dispatch and a start timestamp stored, and the
\*      status processing (transcribing in transcribe_only mode).
\* ------------------------------------------------------------------------
\* the dispatches the creation of project pid made
DispatchesFor(pid) ==
    {i \in DOMAIN dispatches : /\ dispatches[i].by = "create"
                               /\ dispatches[i].project_id = pid}

C13_OneStageCreation ==
    [][\A r \in Slots :
        StepOf(r) /\ req[r].kind = "create" /\ req[r].pc = "store" =>
            LET p == req[r].pid IN
            /\ req'[r].resp = 201
            /\ Cardinality(Usage(p)) = 1
            /\ \A i \in Usage(p) : transactions[i].amount = 0 - req[r].cost
            /\ Cardinality(DispatchesFor(p)) = 1
            /\ \A i \in DispatchesFor(p) : dispatches[i].accepted /\ req[r].job = i
            /\ projects'[p].runpod_job_id = req[r].job
            /\ projects'[p].processing_started_at
            /\ projects'[p].status = IF req[r].mode = "transcribe_only"
                                     THEN "transcribing" ELSE "processing"]_vars

NothingWritten ==
    /\ profile' = profile /\ transactions' = transactions
    /\ projects' = projects /\ dispatches' = dispatches

C15_NoMutationOnRejection ==
    [][\A r \in Slots :
        /\ ArrivalAt(r) /\ req'[r].kind = "create" /\ req'[r].resp = 400 =>
              req'[r].pc = "done" /\ NothingWritten
        /\ req'[r].kind = "create" /\ req'[r].pc # "done" =>
              req'[r].file /\ req'[r].lyrics_len >= MinLyricsLength
        /\ req'[r].kind = "create" /\ req'[r].pc = "upload" =>
              /\ req'[r].pid = 0 /\ req'[r].debit = Null
              /\ \A i \in DOMAIN dispatches' : dispatches'[i].project_id # 0
        /\ /\ StepOf(r) /\ req[r].kind = "create" /\ req[r].pc = "upload"
           /\ req'[r].resp = 500
           => req'[r].pc = "done" /\ NothingWritten]_vars

\* one creation was rejected by validation and another lost its upload:
\* the user's credits are untouched and there is no project and no job
C15_Witness ==
    /\ \E r \in Slots : req[r] = Answered("create", 400, 0)
    /\ \E r \in Slots : req[r] = Answered("create", 500, 0)
    /\ profile = NewProfile /\ transactions = <<>> /\ dispatches = <<>>
    /\ \A p \in ProjectIds : projects[p] = NoProject

\* ------------------------------------------------------------------------
\* C16. A payment webhook whose signature does not verify is answered 400
\*      and ends there: no event of an unverified delivery is ever handled,
\*      and the balance, the transaction log, the tier and the subscription
\*      reference are as before.
\* ------------------------------------------------------------------------
C16_UnverifiedRejected ==
    [][\A r \in Slots :
        /\ ArrivalAt(r) /\ req'[r].kind = "stripe" /\ req'[r].resp = 400 =>
              /\ req'[r].pc = "done"
              /\ profile' = profile /\ transactions' = transactions
        /\ ArrivalAt(r) /\ req'[r].kind = "stripe" /\ req'[r].pc # "done" =>
              req'[r].ev.sig
        /\ StepOf(r) /\ req[r].kind = "stripe" =>
              req[r].ev.sig /\ req'[r].resp # 400]_vars

\* an unsigned purchase event was delivered to a new user and answered 400:
\* the profile and the log are untouched
C16_Witness ==
    /\ \E r \in Slots : req[r] = Answered("stripe", 400, 0)
    /\ profile \in {NewProfile, [NewProfile EXCEPT !.stripe_customer_id = Customer]}
    /\ transactions = <<>>

\* ------------------------------------------------------------------------
\* C17. A verified checkout-completed event for a subscription whose price
\*      matches a plan raises the balance by that plan's monthly credits and
\*      appends one transaction of that amount, of kind upgrade when the
\*      checkout replaced a subscription and subscription_renewal otherwise.
\* ------------------------------------------------------------------------
C17_SubscriptionGrant ==
    [][\A r \in Slots :
        /\ StepOf(r) /\ req[r].kind = "stripe" /\ req[r].pc = "grant"
        /\ PlanByPrice(req[r].ev.price) # Null
        => LET allotment == PlanCredits(PlanByPrice(req[r].ev.price)) IN
           /\ profile' = [profile EXCEPT !.credits_remaining = @ + allotment]
           /\ transactions' = Append(transactions,
                 [amount |-> allotment,
                  balance_after |-> profile.credits_remaining + allotment,
                  transaction_type |-> IF req[r].ev.is_upgrade
                                       THEN "upgrade" ELSE "subscription_renewal",
                  project_id |-> 0, stripe_payment_id |-> Null])]_vars

\* ------------------------------------------------------------------------
\* C18. A verified checkout-completed event for a credit purchase raises the
\*      balance by the purchased amount and appends exactly one transaction
\*      of kind purchase carrying the payment reference; no other field of
\*      the profile (tier, subscription reference) changes.
\* ------------------------------------------------------------------------
C18_CreditPurchase ==
    [][\A r \in Slots :
        StepOf(r) /\ req[r].kind = "stripe" /\ req[r].pc = "purchase" =>
           /\ req[r].ev.credits > 0 /\ req[r].ev.payment_intent # Null
           /\ profile' = [profile EXCEPT !.credits_remaining = @ + req[r].ev.credits]
           /\ transactions' = Append(transactions,
                 [amount |-> req[r].ev.credits,
                  balance_after |-> profile.credits_remaining + req[r].ev.credits,
                  transaction_type |-> "purchase", project_id |-> 0,
                  stripe_payment_id |-> req[r].ev.payment_intent])]_vars

\* a new user bought 10 credits: the balance is 13, the log holds the one
\* purchase with its payment reference, the user is still on the free tier
C18_Witness ==
    /\ profile.credits_remaining = DefaultCredits + 10
    /\ profile.subscription_tier = "free" /\ profile.stripe_subscription_id = Null
    /\ transactions = <<[amount |-> 10, balance_after |-> DefaultCredits + 10,
                         transaction_type |-> "purchase", project_id |-> 0,
                         stripe_payment_id |-> "pi_1"]>>

\* ------------------------------------------------------------------------
\* C19. When a checkout is started by a user whose profile holds a
\*      subscription, that subscription is cancelled and the reference in the
\*      profile is cleared by the time the new session is created; and the
\*      user never has two active subscriptions.
\* ------------------------------------------------------------------------
C19_OneSubscription ==
    [][/\ \A r \in Slots :
            /\ StepOf(r) /\ req[r].kind = "checkout" /\ req[r].pc = "session"
            /\ req[r].subscriptionId # Null
            => /\ req[r].subscriptionId \notin stripe.subscriptions
               /\ profile.stripe_subscription_id = Null
       /\ Cardinality(stripe'.subscriptions) <= 1]_vars

\* ------------------------------------------------------------------------
\* C20. A subscription created / updated event whose customer is the user's
\*      and whose price matches a plan sets the tier to that plan and records
\*      the subscription reference, and changes nothing else; when the
\*      customer matches no user or the price matches no plan, the profile is
\*      left as it is. In both cases the balance and the transaction log are
\*      unchanged and the webhook answers 200.
\* ------------------------------------------------------------------------
C20_SubscriptionUpsert ==
    [][\A r \in Slots :
        StepOf(r) /\ req[r].kind = "stripe" /\ req[r].pc = "upsert" =>
            LET ev == req[r].ev
                tier == CASE ev.price = "price_starter" -> "starter"
                          [] ev.price = "price_pro" -> "pro"
                          [] ev.price = "price_studio" -> "studio"
                          [] OTHER -> Null
            IN
            /\ profile' = IF profile.stripe_customer_id = ev.customer /\ tier # Null
                          THEN [profile EXCEPT !.subscription_tier = tier,
                                               !.stripe_subscription_id = ev.sub]
                          ELSE profile
            /\ profile'.subscription_tier \in Tiers
            /\ transactions' = transactions
            /\ req'[r].pc = "done" /\ req'[r].resp = 200]_vars

\* the created event of the starter subscription was handled for the user:
\* tier and reference are recorded, the balance and the log are untouched,
\* and every delivery so far was acknowledged
C20_Witness ==
    /\ profile = [NewProfile EXCEPT !.stripe_customer_id = Customer,
                                    !.subscription_tier = "starter",
                                    !.stripe_subscription_id = "sub_1"]
    /\ transactions = <<>>
    /\ nextReq > 2
    /\ \A r \in Slots : req[r] = Answered("stripe", 200, 0)

\* ------------------------------------------------------------------------
\* C21. A verified invoice-paid event of a renewal cycle for the user's
\*      customer grants the monthly credits of the plan the handler found on
\*      the profile: the balance rises by that allotment, one
\*      subscription_renewal transaction of that amount is appended, and the
\*      handler then sets credits_used_this_month to zero and answers 200.
\* ------------------------------------------------------------------------
C21_InvoiceRenewal ==
    [][\A r \in Slots :
        /\ StepOf(r) /\ req[r].kind = "stripe" /\ req[r].pc = "invoice" =>
              /\ profile' = profile /\ transactions' = transactions
              /\ IF profile.stripe_customer_id = req[r].ev.customer
                 THEN /\ req'[r].pc = "renew"
                      /\ req'[r].tier = profile.subscription_tier
                 ELSE req'[r].pc = "done" /\ req'[r].resp = 200
        /\ StepOf(r) /\ req[r].kind = "stripe" /\ req[r].pc = "renew" =>
              LET allotment == CASE req[r].tier = "free" -> 3
                                 [] req[r].tier = "starter" -> 25
                                 [] req[r].tier = "pro" -> 75
                                 [] req[r].tier = "studio" -> 200
              IN
              /\ profile' = [profile EXCEPT !.credits_remaining = @ + allotment]
              /\ transactions' = Append(transactions,
                    [amount |-> allotment,
                     balance_after |-> profile.credits_remaining + allotment,
                     transaction_type |-> "subscription_renewal",
                     project_id |-> 0, stripe_payment_id |-> Null])
              /\ req'[r].pc = "reset"
        /\ StepOf(r) /\ req[r].kind = "stripe" /\ req[r].pc = "reset" =>
              /\ profile' = [profile EXCEPT !.credits_used_this_month = 0]
              /\ transactions' = transactions
              /\ req'[r].pc = "done" /\ req'[r].resp = 200]_vars

\* a user who had spent 3 credits was renewed on the free plan: the log
\* holds the debit and then the renewal, the balance is the allotment and the
\* used counter is back at zero
C21_Witness ==
    /\ Len(transactions) = 2
    /\ transactions[1].transaction_type = "usage"
    /\ transactions[2] = [amount |-> 3, balance_after |-> 3,
                          transaction_type |-> "subscription_renewal",
                          project_id |-> 0, stripe_payment_id |-> Null]
    /\ profile.credits_remaining = 3
    /\ profile.credits_used_this_month = 0
    /\ \E r \in Slots : req[r] = Answered("stripe", 200, 0)

\* ------------------------------------------------------------------------
\* C22. A subscription-deleted event for the user's customer sets the tier
\*      to free and clears the subscription reference; it changes no other
\*      field of the profile, so the balance stays, and it appends nothing to
\*      the transaction log. The webhook answers 200.
\* ------------------------------------------------------------------------
C22_SubscriptionDeleted ==
    [][\A r \in Slots :
        StepOf(r) /\ req[r].kind = "stripe" /\ req[r].pc = "deleted" =>
            /\ profile.stripe_customer_id = req[r].ev.customer =>
                  profile' = [profile EXCEPT !.subscription_tier = "free",
                                             !.stripe_subscription_id = Null]
            /\ profile'.credits_remaining = profile.credits_remaining
            /\ transactions' = transactions
            /\ req'[r].pc = "done" /\ req'[r].resp = 200]_vars

\* the starter subscription was cancelled and its deleted event handled: the
\* user is on the free tier without a reference, and still holds the 28
\* credits and the one grant in the log
C22_Witness ==
    /\ profile.subscription_tier = "free"
    /\ profile.stripe_subscription_id = Null
    /\ profile.credits_remaining = DefaultCredits + 25
    /\ Len(transactions) = 1 /\ transactions[1].amount = 25
    /\ stripe.subscriptions = {} /\ stripe.events = {}
    /\ \E r \in Slots : req[r] = Answered("stripe", 200, 0)

\* ------------------------------------------------------------------------
\* C23. Whatever happens to the notification of a completed or failed
\*      callback (sent, no address for the user, email API error), the
\*      handler ends with a 200 acknowledgement and the project row stays as
\*      the callback's update left it.
\* ------------------------------------------------------------------------
C23_EmailFailureSwallowed ==
    [][\A r \in Slots :
        StepOf(r) /\ req[r].kind = "runpod" /\ req[r].pc = "notify" =>
            /\ req[r].status \in {"completed", "failed"}
            /\ projects' = projects
            /\ profile' = profile /\ transactions' = transactions
            /\ req'[r].pc = "done" /\ req'[r].resp = 200]_vars

\* a project with notifications enabled has failed, its callback was
\* acknowledged with 200, and no message went out: the notification failed
C23_Witness ==
    \E p \in ProjectIds :
        /\ projects[p].status = "failed" /\ projects[p].notify_on_complete
        /\ projects[p].error_message = "gpu_error"
        /\ emails = <<>>
        /\ nextReq = 2
        /\ \A r \in Slots : Free(r)
        /\ \E r \in Slots : req[r] = Answered("runpod", 200, p)

\* ------------------------------------------------------------------------
\* C24. The cost of a creation is a function of processing_type and
\*      video_quality alone: a single-version track costs 3 at 480p, 5 at
\*      720p, 7 at 1080p and 9 at 4k, both vocal versions cost 1 more, and an
\*      unknown or missing quality is priced as 480p; equal inputs give equal
\*      costs, and computing a cost changes nothing else.
\* ------------------------------------------------------------------------
C24_Pricing ==
    [][\A r \in Slots :
        req'[r].pc = "quoted" =>
            LET single == CASE req'[r].video_quality = "480p" -> 3
                            [] req'[r].video_quality = "720p" -> 5
                            [] req'[r].video_quality = "1080p" -> 7
                            [] req'[r].video_quality = "4k" -> 9
                            [] OTHER -> 3
            IN
            /\ req'[r].cost = single + IF req'[r].processing_type = "both"
                                       THEN 1 ELSE 0
            /\ \A q \in Slots :
                  /\ req'[q].pc = "quoted"
                  /\ req'[q].processing_type = req'[r].processing_type
                  /\ req'[q].video_quality = req'[r].video_quality
                  => req'[q].cost = req'[r].cost
            /\ UNCHANGED <<profile, transactions, rowLock, projects, dispatches,
                           emails, nextReq, stripe>>]_vars

\* both versions at 4k were priced at 10, and a request without a quality
\* at 3
C24_Witness ==
    /\ \E r \in Slots : /\ req[r].pc = "quoted" /\ req[r].cost = 10
                         /\ req[r].processing_type = "both"
                         /\ req[r].video_quality = "4k"
    /\ \E r \in Slots : /\ req[r].pc = "quoted" /\ req[r].cost = 3
                         /\ req[r].video_quality = Null

\* ------------------------------------------------------------------------
\* C25. When the dispatch of a creation fails, the request ends with 500 (not
\*      400 or 402), it has made exactly one dispatch and makes no other, and
\*      it stores nothing: the project row is left as it is, which is queued
\*      and without a job handle (never processing) unless another request
\*      on the project has moved it meanwhile.
\* ------------------------------------------------------------------------
C25_DispatchFailure ==
    [][\A r \in Slots :
        /\ StepOf(r) /\ req[r].kind = "create" /\ req[r].pc = "dispatch"
        /\ ~dispatches'[Len(dispatches')].accepted
        => /\ req'[r].pc = "done" /\ req'[r].resp = 500
           /\ Cardinality({i \in DOMAIN dispatches' :
                    /\ dispatches'[i].by = "create"
                    /\ dispatches'[i].project_id = req[r].pid}) = 1
           /\ projects' = projects
           /\ projects[req[r].pid].status \notin {"queued", "processing"}
                 \/ /\ projects'[req[r].pid].status = "queued"
                    /\ projects'[req[r].pid].runpod_job_id = 0]_vars

\* a creation was debited and its dispatch failed: it was answered 500 and
\* its project is queued without a job handle
C25_Witness ==
    \E r \in Slots, p \in ProjectIds :
        /\ req[r] = Answered("create", 500, p)
        /\ projects[p].status = "queued" /\ projects[p].runpod_job_id = 0
        /\ Usage(p) # {}
        /\ Len(dispatches) = 1 /\ ~dispatches[1].accepted
        /\ dispatches[1].project_id = p

\* ------------------------------------------------------------------------
\* C26. No project is processed unpaid: every dispatch in full or
\*      transcribe_only mode, by the creation or by the transcribe action on
\*      a queued project, is made only when a usage transaction of that
\*      project is already in the log.
\* ------------------------------------------------------------------------
C26_NoUnpaidProcessing ==
    \A i \in DOMAIN dispatches :
        dispatches[i].processing_mode \in {"full", "transcribe_only"} =>
            \E t \in Usage(dispatches[i].project_id) :
                transactions[t].amount < 0

\* ------------------------------------------------------------------------
\* C27. A verified checkout-completed event delivered again credits nothing:
\*      when the handler comes to credit a purchase whose payment is already
\*      in the log, the balance and the log stay as the first delivery left
\*      them.
\* ------------------------------------------------------------------------
Credited(payment) ==
    \E i \in DOMAIN transactions : transactions[i].stripe_payment_id = payment

C27_CheckoutCreditedOnce ==
    [][\A r \in Slots :
        /\ StepOf(r) /\ req[r].kind = "stripe" /\ req[r].pc = "purchase"
        /\ Credited(req[r].ev.payment_intent)
        => /\ profile' = profile
           /\ transactions' = transactions]_vars

\* ------------------------------------------------------------------------
\* C28. The deleted event of a cancelled subscription and the created event
\*      of its successor may be handled in either order: a deleted event for
\*      a subscription other than the one the profile records leaves tier
\*      and reference alone, and once the subscription events of the one
\*      active subscription are all handled the profile records that
\*      subscription with a paid tier.
\* ------------------------------------------------------------------------
SubscriptionEventTypes ==
    {"customer.subscription.created", "customer.subscription.updated",
     "customer.subscription.deleted"}

\* no subscription event is waiting for delivery or being handled, and no
\* checkout is under way
SubscriptionEventsHandled ==
    /\ \A ev \in stripe.events : ev.type \notin SubscriptionEventTypes
    /\ \A r \in Slots : Free(r)
    /\ stripe.sessions = <<>>

OneActive(sub) ==
    /\ stripe.subscriptions = {sub}
    /\ SubscriptionEventsHandled
    => /\ profile.stripe_subscription_id = sub
       /\ profile.subscription_tier # "free"

C28_UpgradeEventOrder ==
    [][/\ \A r \in Slots :
            /\ StepOf(r) /\ req[r].kind = "stripe" /\ req[r].pc = "deleted"
            /\ profile.stripe_subscription_id \notin {Null, req[r].ev.sub}
            => /\ profile'.subscription_tier = profile.subscription_tier
               /\ profile'.stripe_subscription_id = profile.stripe_subscription_id
       /\ \A n \in 1..4 : OneActive(SubscriptionId(n))']_vars

\* ------------------------------------------------------------------------
\* C29. An in-flight status stands for a job the worker accepted: when the
\*      dispatch of a render or transcribe action fails, the action ends
\*      with the project neither rendering nor transcribing.
\* ------------------------------------------------------------------------
C29_InFlightHasJob ==
    [][\A r \in Slots :
        /\ StepOf(r) /\ req[r].kind \in {"render", "transcribe"}
        /\ req[r].pc = "dispatch"
        /\ ~dispatches'[Len(dispatches')].accepted
        => projects'[req[r].pid].status \notin {"rendering", "transcribing"}]_vars

\* ------------------------------------------------------------------------
\* C30. One visit of a project to awaiting_review gets at most one
\*      render_only dispatch, and one stay in queued at most one
\*      transcribe_only dispatch by the transcribe action: when a handler
\*      makes its dispatch, no other handler of the same action that read
\*      the same project row has made one.
\* ------------------------------------------------------------------------
\* another handler of the action of r read the row r read and has dispatched
DispatchedTwice(r) ==
    \E q \in Slots \ {r} :
        /\ req[q].kind = req[r].kind /\ req[q].pid = req[r].pid
        /\ req[q].proj = req[r].proj
        /\ req[q].pc = "store"

C30_OneDispatchPerVisit ==
    [][\A r \in Slots :
        /\ StepOf(r) /\ req[r].kind \in {"render", "transcribe"}
        /\ req[r].pc = "dispatch"
        => ~DispatchedTwice(r)]_vars
====
